---- MODULE Spec2Model ----
(***************************************************************************)
(* Model of core/observer/interface/helper.h (iLogtail network observer):  *)
(* the two connection-key hashing strategies, the statistics table         *)
(* NetStaticticsMap, the packet-event framing codec and the role           *)
(* inference helpers.                                                      *)
(***************************************************************************)
EXTENDS Integers, Sequences, FiniteSets, TLC

VARIABLES
    mHashMap,     \* NetStaticticsMap::mHashMap: entries [key, val, hash] in insertion order
    mergedMap,    \* a MergedNetStatisticsHashMap, same representation
    ref,          \* the NetStatisticsTCP& last returned (index of its entry, 0 = none/dangling)
    op,           \* last table operation: [name, key, found, first, dirty]
    hadClear,     \* a Clear() has happened on the table
    fetched,      \* <<PID, SockHash>> of the keys passed to GetStatisticsItem since the last Clear()
    dirty,        \* <<PID, SockHash>> of the entries that held a non-zero counter at the
                  \* last Clear() and were not asked for since
    pktType, SrcPort, DstPort, messageType, inferred,   \* role inference call and result
    memory,       \* flat memory, address -> cell
    call          \* last codec call: its arguments and results

vars == <<mHashMap, mergedMap, ref, op, hadClear, fetched, dirty,
          pktType, SrcPort, DstPort, messageType, inferred, memory, call>>

tableVars == <<mHashMap, mergedMap, ref, op, hadClear, fetched, dirty>>
inferVars == <<pktType, SrcPort, DstPort, messageType, inferred>>
codecVars == <<memory, call>>

-----------------------------------------------------------------------------
(* Bounds *)

MaxCount == 1        \* cap on each modelled counter
MaxPayload == 2      \* longest payload of a data event, in bytes

-----------------------------------------------------------------------------
(* Connection keys *)

\* SockAddress: type tag plus address value.
AddrA == [Type |-> "SockAddressType_IPV4", Addr |-> 1]
AddrB == [Type |-> "SockAddressType_IPV4", Addr |-> 2]
AddrL == [Type |-> "SockAddressType_IPV6", Addr |-> 1]

NetStatisticsKey(pid, sockHash, srcAddr, srcPort, dstAddr, dstPort, role) ==
    [PID |-> pid, SockHash |-> sockHash, SrcAddr |-> srcAddr, SrcPort |-> srcPort,
     DstAddr |-> dstAddr, DstPort |-> dstPort, RoleType |-> role,
     SockCategory |-> "InetSocket"]

\* The keys presented to the per-socket table: two that differ only in SockHash,
\* two of one socket that differ in every field the strategy ignores, and one
\* of another process.
Keys ==
    { NetStatisticsKey(1, 10, AddrL, 40000, AddrA, 80, "Client"),
      NetStatisticsKey(1, 11, AddrL, 40000, AddrA, 80, "Client"),
      NetStatisticsKey(1, 10, AddrB, 40002, AddrB, 443, "Server"),
      NetStatisticsKey(2, 10, AddrL, 40000, AddrA, 80, "Client") }

\* The keys presented to the merged table: two sockets of one process to one
\* remote endpoint, the same endpoint seen in the other role, and the same
\* endpoint reached from another process.
MergedKeys ==
    { NetStatisticsKey(1, 10, AddrL, 40000, AddrA, 80, "Client"),
      NetStatisticsKey(1, 12, AddrB, 40001, AddrA, 80, "Client"),
      NetStatisticsKey(1, 11, AddrB, 40001, AddrA, 80, "Server"),
      NetStatisticsKey(2, 10, AddrL, 40000, AddrA, 80, "Client") }

-----------------------------------------------------------------------------
(* Hash / equality strategies *)

NetStatisticsKeyHashWithSrcPort(key) == <<key.PID, (key.SockHash + key.SrcPort) % 65536>>

\* size_t(((uint64_t)key.PID << 32) | (uint64_t)key.SockHash): the 64-bit value is
\* kept as its two 32-bit halves <<high, low>>.
NetStatisticsKeyHash(key) == <<key.PID, key.SockHash>>

NetStatisticsKeyEqualWithSrcPort(a, b) ==
    a.PID = b.PID /\ a.SockHash = b.SockHash /\ a.SrcPort = b.SrcPort

NetStatisticsKeyEqual(a, b) == a.PID = b.PID /\ a.SockHash = b.SockHash

\* The n bytes of an unsigned value, least significant byte first.
RECURSIVE LEBytes(_, _)
LEBytes(v, n) == IF n = 0 THEN << >> ELSE <<v % 256>> \o LEBytes(v \div 256, n - 1)

\* Object representation of a SockAddress in 32-bit lanes: the type tag and the
\* four words of the address union; the words an address does not use are zero.
SockAddressWords(address) ==
    <<IF address.Type = "SockAddressType_IPV4" THEN 0 ELSE 1, address.Addr, 0, 0, 0>>

\* XXH32(input, length, seed): a seeded hash folded over the lanes of the input.
XXHModulus == 65521
XXHPrime == 31

RECURSIVE XXH32From(_, _, _)
XXH32From(input, i, acc) ==
    IF i > Len(input) THEN acc
    ELSE XXH32From(input, i + 1, (acc * XXHPrime + (input[i] % XXHModulus) + 1) % XXHModulus)

XXH32(input, seed) == XXH32From(input, 1, seed)

MergedNetStatisticsKeyHashWithSock(key) ==
    LET h1 == XXH32(SockAddressWords(key.DstAddr), 0)
        h2 == XXH32(<<key.DstPort>>, h1)
        h3 == XXH32(<<key.PID>>, h2)
    IN  XXH32(<<key.SockHash>>, h3)

MergedNetStatisticsKeyHash(key) ==
    LET h1 == XXH32(SockAddressWords(key.DstAddr), 0)
        h2 == XXH32(<<key.DstPort>>, h1)
    IN  XXH32(<<key.PID>>, h2)

MergedNetStatisticsKeyEqualWithSrcPort(a, b) ==
    /\ a.PID = b.PID /\ a.DstPort = b.DstPort /\ a.RoleType = b.RoleType
    /\ a.DstAddr = b.DstAddr /\ a.SrcPort = b.SrcPort

MergedNetStatisticsKeyEqual(a, b) ==
    a.PID = b.PID /\ a.DstPort = b.DstPort /\ a.RoleType = b.RoleType /\ a.DstAddr = b.DstAddr

\* The Hash and KeyEqual template arguments of the two map types.
HashOf(strategy, key) ==
    IF strategy = "NetStatisticsHashMap" THEN NetStatisticsKeyHash(key)
    ELSE <<0, MergedNetStatisticsKeyHash(key)>>

EqualOf(strategy, a, b) ==
    IF strategy = "NetStatisticsHashMap" THEN NetStatisticsKeyEqual(a, b)
    ELSE MergedNetStatisticsKeyEqual(a, b)

-----------------------------------------------------------------------------
(* std::unordered_map<NetStatisticsKey, NetStatisticsTCP, Hash, KeyEqual> *)

\* A default-constructed NetStatisticsTCP: every counter zero.
sNewTcp == [SendBytes |-> 0, RecvBytes |-> 0]

CounterFields == {"SendBytes", "RecvBytes"}

\* find(key): a node whose cached hash code equals the key's and whose key
\* compares equal; 0 stands for end().
MapFind(strategy, m, key) ==
    LET code == HashOf(strategy, key)
        hits == { i \in 1..Len(m) : m[i].hash = code /\ EqualOf(strategy, m[i].key, key) }
    IN  IF hits = {} THEN 0 ELSE CHOOSE i \in hits : \A j \in hits : i <= j

\* insert(make_pair(key, val)): no effect when an equal key is present.
MapInsert(strategy, m, key, val) ==
    IF MapFind(strategy, m, key) # 0 THEN m
    ELSE Append(m, [key |-> key, val |-> val, hash |-> HashOf(strategy, key)])

MapClearKeep(m) == m

\* clear()
MapClear(m) == << >>

NoOp ==
    [name |-> "none", key |-> CHOOSE k \in Keys : TRUE, found |-> FALSE, first |-> FALSE,
     dirty |-> FALSE]

NonZero(val) == \E f \in CounterFields : val[f] # 0

\* The two 32-bit fields that name a socket.
SocketOf(key) == <<key.PID, key.SockHash>>

\* NetStaticticsMap::GetStatisticsItem
GetStatisticsItem(key) ==
    LET findRst == MapFind("NetStatisticsHashMap", mHashMap, key) IN
    /\ IF findRst # 0
       THEN /\ ref' = findRst
            /\ UNCHANGED mHashMap
       ELSE /\ mHashMap' = MapInsert("NetStatisticsHashMap", mHashMap, key, sNewTcp)
            /\ ref' = MapFind("NetStatisticsHashMap", mHashMap', key)
    /\ op' = [name |-> "GetStatisticsItem", key |-> key, found |-> findRst # 0,
              first |-> SocketOf(key) \notin fetched, dirty |-> SocketOf(key) \in dirty]
    /\ fetched' = fetched \cup {SocketOf(key)}
    /\ dirty' = dirty \ {SocketOf(key)}
    /\ UNCHANGED <<mergedMap, hadClear>>

\* The caller adds to a counter through the reference GetStatisticsItem returned.
UpdateCounter(field) ==
    /\ ref # 0
    /\ mHashMap[ref].val[field] < MaxCount
    /\ mHashMap' = [mHashMap EXCEPT ![ref].val[field] = @ + 1]
    /\ op' = [name |-> "UpdateCounter", key |-> mHashMap[ref].key, found |-> TRUE,
              first |-> FALSE, dirty |-> FALSE]
    /\ UNCHANGED <<mergedMap, ref, hadClear, fetched, dirty>>

\* NetStaticticsMap::Clear
Clear ==
    /\ mHashMap' = MapClear(mHashMap)
    /\ ref' = 0
    /\ hadClear' = TRUE
    /\ fetched' = {}
    /\ dirty' = { SocketOf(mHashMap[i].key) :
                     i \in { j \in 1..Len(mHashMap) : NonZero(mHashMap[j].val) } }
    /\ op' = [NoOp EXCEPT !.name = "Clear"]
    /\ UNCHANGED mergedMap

\* Get-or-create and accumulate on a MergedNetStatisticsHashMap.
MergedAccumulate(key, field) ==
    LET findRst == MapFind("MergedNetStatisticsHashMap", mergedMap, key)
        m1 == IF findRst # 0 THEN mergedMap
              ELSE MapInsert("MergedNetStatisticsHashMap", mergedMap, key, sNewTcp)
        i  == IF findRst # 0 THEN findRst ELSE Len(m1)
    IN  /\ m1[i].val[field] < MaxCount
        /\ mergedMap' = [m1 EXCEPT ![i].val[field] = @ + 1]
        /\ op' = [name |-> "MergedAccumulate", key |-> key, found |-> findRst # 0,
                  first |-> FALSE, dirty |-> FALSE]
        /\ UNCHANGED <<mHashMap, ref, hadClear, fetched, dirty>>

MergedClear ==
    /\ mergedMap # << >>
    /\ mergedMap' = << >>
    /\ op' = [NoOp EXCEPT !.name = "MergedClear"]
    /\ UNCHANGED <<mHashMap, ref, hadClear, fetched, dirty>>

TableInit ==
    /\ mHashMap = << >>
    /\ mergedMap = << >>
    /\ ref = 0
    /\ op = NoOp
    /\ hadClear = FALSE
    /\ fetched = {}
    /\ dirty = {}

InferIdle ==
    /\ pktType = "PacketType_None"
    /\ SrcPort = 0
    /\ DstPort = 0
    /\ messageType = "MessageType_None"
    /\ inferred = [fn |-> "none", result |-> "none"]

CodecIdle ==
    /\ memory = << >>
    /\ call = << >>

\* The per-socket statistics table.
InitTable == TableInit /\ InferIdle /\ CodecIdle

NextTable ==
    \/ \E key \in Keys : GetStatisticsItem(key) /\ UNCHANGED <<inferVars, codecVars>>
    \/ \E field \in CounterFields : UpdateCounter(field) /\ UNCHANGED <<inferVars, codecVars>>
    \/ Clear /\ UNCHANGED <<inferVars, codecVars>>

SpecTable == InitTable /\ [][NextTable]_vars

\* The merged-by-endpoint statistics table.
NextMerged ==
    \/ \E key \in MergedKeys, field \in CounterFields :
           MergedAccumulate(key, field) /\ UNCHANGED <<inferVars, codecVars>>
    \/ MergedClear /\ UNCHANGED <<inferVars, codecVars>>

SpecMerged == InitTable /\ [][NextMerged]_vars

-----------------------------------------------------------------------------
(* Role inference *)

PacketTypes == {"PacketType_None", "PacketType_In", "PacketType_Out"}
MessageTypes == {"MessageType_None", "MessageType_Request", "MessageType_Response"}

\* uint16_t ports on both sides of the threshold and of each other.
Ports == {0, 80, 29999, 30000, 30001, 50000, 65535}

InferRequestOrResponseGeq(pkt, header) ==
    IF pkt = "PacketType_In"
    THEN IF header.SrcPort >= header.DstPort \/ header.DstPort < 30000
         THEN "MessageType_Response"
         ELSE "MessageType_Request"
    ELSE IF pkt = "PacketType_Out"
         THEN IF header.SrcPort >= header.DstPort \/ header.DstPort < 30000
              THEN "MessageType_Request"
              ELSE "MessageType_Response"
         ELSE "MessageType_None"

InferRequestOrResponseNoThreshold(pkt, header) ==
    IF pkt = "PacketType_In"
    THEN IF header.SrcPort > header.DstPort
         THEN "MessageType_Response"
         ELSE "MessageType_Request"
    ELSE IF pkt = "PacketType_Out"
         THEN IF header.SrcPort > header.DstPort
              THEN "MessageType_Request"
              ELSE "MessageType_Response"
         ELSE "MessageType_None"

InferRequestOrResponse(pkt, header) ==
    IF pkt = "PacketType_In"
    THEN IF header.SrcPort > header.DstPort \/ header.DstPort < 30000
         THEN "MessageType_Response"
         ELSE "MessageType_Request"
    ELSE IF pkt = "PacketType_Out"
         THEN IF header.SrcPort > header.DstPort \/ header.DstPort < 30000
              THEN "MessageType_Request"
              ELSE "MessageType_Response"
         ELSE "MessageType_None"

InferServerOrClientSameBothWays(pkt, msg) ==
    IF pkt = "PacketType_None" \/ msg = "MessageType_None"
    THEN "Unknown"
    ELSE IF msg = "MessageType_Request" THEN "Server" ELSE "Client"

InferServerOrClient(pkt, msg) ==
    IF pkt = "PacketType_None" \/ msg = "MessageType_None"
    THEN "Unknown"
    ELSE IF pkt = "PacketType_In"
         THEN IF msg = "MessageType_Request" THEN "Server" ELSE "Client"
         ELSE IF pkt = "PacketType_Out"
              THEN IF msg = "MessageType_Request" THEN "Client" ELSE "Server"
              ELSE "Unknown"

CallInferRequestOrResponse(pkt, src, dst) ==
    /\ pktType' = pkt
    /\ SrcPort' = src
    /\ DstPort' = dst
    /\ messageType' = "MessageType_None"
    /\ inferred' = [fn |-> "InferRequestOrResponse",
                    result |-> InferRequestOrResponse(pkt, [SrcPort |-> src, DstPort |-> dst])]

CallInferServerOrClient(pkt, msg) ==
    /\ pktType' = pkt
    /\ messageType' = msg
    /\ SrcPort' = 0
    /\ DstPort' = 0
    /\ inferred' = [fn |-> "InferServerOrClient", result |-> InferServerOrClient(pkt, msg)]

InitInfer == TableInit /\ InferIdle /\ CodecIdle

NextInfer ==
    \/ \E pkt \in PacketTypes, src \in Ports, dst \in Ports :
           CallInferRequestOrResponse(pkt, src, dst) /\ UNCHANGED <<tableVars, codecVars>>
    \/ \E pkt \in PacketTypes, msg \in MessageTypes :
           CallInferServerOrClient(pkt, msg) /\ UNCHANGED <<tableVars, codecVars>>

SpecInfer == InitInfer /\ [][NextInfer]_vars

-----------------------------------------------------------------------------
(* Event framing codec *)

\* Layout of PacketEventHeader and PacketEventData, in bytes.
sizeofPacketEventHeader == 8     \* EventType, PID, SockHash, TimeNano, SrcAddr, SrcPort, DstAddr, DstPort
sizeofPacketEventData == 16      \* PktType, PtlType, MsgType, pad, RealLen(2), BufferLen(2), Buffer(8)
offsetofEventType == 0
offsetofBufferLen == 6
offsetofBuffer == 8
sizeofPointer == 8
sizeofLength == 4                \* the uint32_t length field of a frame

PacketEventType_None == 0
PacketEventType_Data == 1
PacketEventType_Connected == 2
PacketEventTypes == {PacketEventType_None, PacketEventType_Data, PacketEventType_Connected}

NULL == 0

\* Memory map: the raw buffer / source event, a detached payload, the frame.
MaxBufLen == sizeofPacketEventHeader + sizeofPacketEventData + MaxPayload
EventAddr == 1
PayloadAddr == EventAddr + MaxBufLen + sizeofPacketEventData
FrameAddr == PayloadAddr + MaxPayload + 1
MemSize == FrameAddr + sizeofLength + MaxBufLen + sizeofPacketEventData

ZeroMemory == [a \in 1..MemSize |-> 0]

Store(mem, addr, bytes) ==
    [a \in 1..MemSize |->
        IF a >= addr /\ a < addr + Len(bytes) THEN bytes[a - addr + 1] ELSE mem[a]]

Load(mem, addr, n) == [i \in 1..n |-> mem[addr + i - 1]]

RECURSIVE FromLE(_)
FromLE(bytes) == IF bytes = << >> THEN 0 ELSE Head(bytes) + 256 * FromLE(Tail(bytes))

\* (uint32_t)x < n for an int32_t x and a size n below 2^31: a negative x
\* converts to a value of at least 2^31.
Uint32Less(x, n) == x >= 0 /\ x < n

BufferToPacketEventLeq(mem, buffer, buffer_len) ==
    IF buffer_len <= sizeofPacketEventHeader
    THEN [memory |-> mem, event |-> NULL, len |-> buffer_len, stores |-> {}]
    ELSE LET at == buffer + sizeofPacketEventHeader + offsetofBuffer
             to == buffer + sizeofPacketEventHeader + sizeofPacketEventData
         IN  [memory |-> Store(mem, at, LEBytes(to, sizeofPointer)),
              event |-> buffer, len |-> buffer_len,
              stores |-> at .. (at + sizeofPointer - 1)]

BufferToPacketEvent(mem, buffer, buffer_len) ==
    IF Uint32Less(buffer_len, sizeofPacketEventHeader)
    THEN [memory |-> mem, event |-> NULL, len |-> buffer_len, stores |-> {}]
    ELSE IF buffer_len = sizeofPacketEventHeader
         THEN [memory |-> mem, event |-> buffer, len |-> buffer_len, stores |-> {}]
         ELSE LET at == buffer + sizeofPacketEventHeader + offsetofBuffer
                  to == buffer + sizeofPacketEventHeader + sizeofPacketEventData
              IN  [memory |-> Store(mem, at, LEBytes(to, sizeofPointer)),
                   event |-> buffer, len |-> buffer_len,
                   stores |-> at .. (at + sizeofPointer - 1)]

PacketEventToBufferWholeSize(mem, event, len) ==
    IF Uint32Less(len, sizeofPacketEventHeader) THEN << >>
    ELSE IF mem[event + offsetofEventType] = PacketEventType_Data
         THEN LET data == event + sizeofPacketEventHeader
                  BufferLen == FromLE(Load(mem, data + offsetofBufferLen, 2))
                  Buffer == FromLE(Load(mem, data + offsetofBuffer, sizeofPointer))
                  size == sizeofLength + sizeofPacketEventHeader + sizeofPacketEventData + BufferLen
              IN  LEBytes(size, sizeofLength)
                      \o Load(mem, event, sizeofPacketEventHeader + sizeofPacketEventData)
                      \o Load(mem, Buffer, BufferLen)
         ELSE LET size == sizeofLength + sizeofPacketEventHeader
              IN  LEBytes(size, sizeofLength)
                      \o Load(mem, event, sizeofPacketEventHeader)

PacketEventToBuffer(mem, event, len) ==
    IF Uint32Less(len, sizeofPacketEventHeader) THEN << >>
    ELSE IF mem[event + offsetofEventType] = PacketEventType_Data
         THEN LET data == event + sizeofPacketEventHeader
                  BufferLen == FromLE(Load(mem, data + offsetofBufferLen, 2))
                  Buffer == FromLE(Load(mem, data + offsetofBuffer, sizeofPointer))
                  size == sizeofLength + sizeofPacketEventHeader + sizeofPacketEventData + BufferLen
              IN  LEBytes(size - sizeofLength, sizeofLength)
                      \o Load(mem, event, sizeofPacketEventHeader + sizeofPacketEventData)
                      \o Load(mem, Buffer, BufferLen)
         ELSE LET size == sizeofLength + sizeofPacketEventHeader
              IN  LEBytes(size - sizeofLength, sizeofLength)
                      \o Load(mem, event, sizeofPacketEventHeader)

\* Inputs of the codec calls.
HeaderImage(eventType, v) == <<eventType, v + 1, v + 2, v + 3, v + 4, v + 5, v + 6, v + 7>>

DataImage(pkt, bufferLen, pointer) ==
    <<pkt, 3, 1, 0>> \o LEBytes(bufferLen + 1, 2) \o LEBytes(bufferLen, 2)
        \o LEBytes(pointer, sizeofPointer)

PayloadBytes == {65, 66}
Payloads == UNION { [1..n -> PayloadBytes] : n \in 0..MaxPayload }

NoCall ==
    [fn |-> "none", buffer |-> NULL, buffer_len |-> 0, before |-> << >>, event |-> NULL,
     len |-> 0, stores |-> {}, frame |-> << >>, payload |-> << >>]

\* A capture source hands over buffer_len bytes: the prefix of a header, a data
\* section with an arbitrary Buffer field, and a payload.
InputBuffer(eventType, v, p, garbage, buffer_len) ==
    LET image == HeaderImage(eventType, v) \o DataImage(1, Len(p), garbage) \o p
        before == Store(ZeroMemory, EventAddr, SubSeq(image, 1, buffer_len))
    IN  /\ buffer_len <= Len(image)
        /\ memory = before
        /\ call = [NoCall EXCEPT !.fn = "buffer", !.buffer = EventAddr,
                                 !.buffer_len = buffer_len, !.before = before, !.payload = p]

\* An event held in memory, to be encoded; the payload of a data event lies
\* right after the data section or elsewhere.
InputEvent(eventType, v, p, inline, len) ==
    LET Buffer == IF inline
                  THEN EventAddr + sizeofPacketEventHeader + sizeofPacketEventData
                  ELSE PayloadAddr
        m1 == Store(ZeroMemory, EventAddr, HeaderImage(eventType, v))
        m2 == IF eventType = PacketEventType_Data
              THEN Store(Store(m1, EventAddr + sizeofPacketEventHeader,
                               DataImage(2, Len(p), Buffer)), Buffer, p)
              ELSE m1
    IN  /\ eventType # PacketEventType_Data => p = << >> /\ inline
        /\ len \in {sizeofPacketEventHeader - 1,
                    IF eventType = PacketEventType_Data
                    THEN sizeofPacketEventHeader + sizeofPacketEventData + Len(p)
                    ELSE sizeofPacketEventHeader}
        /\ memory = m2
        /\ call = [NoCall EXCEPT !.fn = "event", !.event = EventAddr, !.len = len,
                                 !.before = m2, !.payload = p]

CallBufferToPacketEvent ==
    /\ call.fn = "buffer"
    /\ LET r == BufferToPacketEvent(memory, call.buffer, call.buffer_len)
       IN  /\ memory' = r.memory
           /\ call' = [call EXCEPT !.fn = "BufferToPacketEvent", !.event = r.event,
                                   !.len = r.len, !.stores = r.stores]

CallPacketEventToBuffer ==
    /\ call.fn = "event"
    /\ call' = [call EXCEPT !.fn = "PacketEventToBuffer",
                            !.frame = PacketEventToBuffer(memory, call.event, call.len)]
    /\ UNCHANGED memory

\* The receiver of a frame decodes the bytes after the length field.
DecodeFrame ==
    /\ call.fn = "PacketEventToBuffer"
    /\ Len(call.frame) >= sizeofLength
    /\ LET before == Store(memory, FrameAddr, call.frame)
           length == FromLE(SubSeq(call.frame, 1, sizeofLength))
           r == BufferToPacketEvent(before, FrameAddr + sizeofLength, length)
       IN  /\ memory' = r.memory
           /\ call' = [call EXCEPT !.fn = "DecodeFrame", !.buffer = FrameAddr + sizeofLength,
                                   !.buffer_len = length, !.before = before, !.event = r.event, !.len = r.len,
                                   !.stores = r.stores]

InitCodec ==
    /\ TableInit
    /\ InferIdle
    /\ \/ \E eventType \in PacketEventTypes, v \in {10, 20}, p \in Payloads,
            garbage \in {0, 9}, buffer_len \in 0..MaxBufLen :
             InputBuffer(eventType, v, p, garbage, buffer_len)
       \/ \E eventType \in PacketEventTypes, v \in {10, 20}, p \in Payloads,
            inline \in BOOLEAN, len \in 0..MaxBufLen :
             InputEvent(eventType, v, p, inline, len)

NextCodec ==
    \/ CallBufferToPacketEvent /\ UNCHANGED <<tableVars, inferVars>>
    \/ CallPacketEventToBuffer /\ UNCHANGED <<tableVars, inferVars>>
    \/ DecodeFrame /\ UNCHANGED <<tableVars, inferVars>>

SpecCodec == InitCodec /\ [][NextCodec]_vars

-----------------------------------------------------------------------------
(* Properties of the statistics tables *)

AllZero(val) == \A f \in CounterFields : val[f] = 0

\* C1: the table is empty right after Clear, and the first GetStatisticsItem(k)
\* after a Clear returns an entry whose counters are all zero, also for a key
\* whose entry had accumulated non-zero counters before the Clear.
C1_ClearThenGetIsZero ==
    /\ op.name = "Clear" => mHashMap = << >>
    /\ (op.name = "GetStatisticsItem" /\ hadClear /\ op.first) =>
           /\ ref \in 1..Len(mHashMap)
           /\ SocketOf(mHashMap[ref].key) = SocketOf(op.key)
           /\ AllZero(mHashMap[ref].val)

C1_Witness ==
    /\ op.name = "GetStatisticsItem" /\ hadClear /\ op.first
    /\ op.dirty
    /\ ref \in 1..Len(mHashMap)
    /\ AllZero(mHashMap[ref].val)

OneEntryPerSocket(m) ==
    \A i, j \in 1..Len(m) : SocketOf(m[i].key) = SocketOf(m[j].key) => i = j

GetStatisticsItemEffect ==
    LET present == { i \in 1..Len(mHashMap) : SocketOf(mHashMap[i].key) = SocketOf(op'.key) }
        n == Len(mHashMap)
    IN  IF present # {}
        THEN mHashMap' = mHashMap /\ ref' \in present
        ELSE /\ Len(mHashMap') = n + 1
             /\ SubSeq(mHashMap', 1, n) = mHashMap
             /\ mHashMap'[n + 1].key = op'.key
             /\ AllZero(mHashMap'[n + 1].val)
             /\ ref' = n + 1

\* C2: the table never holds two entries for one key identity (PID, SockHash);
\* GetStatisticsItem for a present key returns the existing entry and changes
\* neither its counters nor the number of entries; for an absent key it adds
\* exactly one zero-valued entry and leaves every other entry unchanged.
C2_GetOrCreateIdempotent ==
    /\ [](OneEntryPerSocket(mHashMap))
    /\ [][op'.name = "GetStatisticsItem" => GetStatisticsItemEffect]_vars

C2_Witness ==
    /\ op.name = "GetStatisticsItem" /\ op.found
    /\ Len(mHashMap) >= 2
    /\ ref \in 1..Len(mHashMap)
    /\ mHashMap[ref].key # op.key
    /\ NonZero(mHashMap[ref].val)

EndpointOf(key) == <<key.PID, key.DstAddr, key.DstPort, key.RoleType>>

OneEntryPerEndpoint(m) ==
    \A i, j \in 1..Len(m) : EndpointOf(m[i].key) = EndpointOf(m[j].key) => i = j

Total(val) == val.SendBytes + val.RecvBytes

EndpointTotal(m, key) ==
    LET at == { i \in 1..Len(m) : EndpointOf(m[i].key) = EndpointOf(key) }
    IN  IF at = {} THEN 0 ELSE Total(m[CHOOSE i \in at : TRUE].val)

\* C3: under the merged-by-endpoint strategy two keys with the same PID,
\* destination address, destination port and role hash alike and compare equal
\* whatever their source address, source port and SockHash, and events for
\* both accumulate into one single entry of a table using that strategy.
C3_MergedByEndpoint ==
    /\ [](\A a, b \in MergedKeys :
            EndpointOf(a) = EndpointOf(b) =>
                /\ MergedNetStatisticsKeyHash(a) = MergedNetStatisticsKeyHash(b)
                /\ MergedNetStatisticsKeyEqual(a, b))
    /\ [](OneEntryPerEndpoint(mergedMap))
    /\ [][op'.name = "MergedAccumulate" =>
            EndpointTotal(mergedMap', op'.key) = EndpointTotal(mergedMap, op'.key) + 1]_vars

C3_Witness ==
    /\ op.name = "MergedAccumulate" /\ op.found
    /\ \E i \in 1..Len(mergedMap) :
          /\ EndpointOf(mergedMap[i].key) = EndpointOf(op.key)
          /\ mergedMap[i].key.SockHash # op.key.SockHash
          /\ mergedMap[i].key.SrcPort # op.key.SrcPort
          /\ mergedMap[i].key.SrcAddr # op.key.SrcAddr
          /\ Total(mergedMap[i].val) >= 2

DifferOnlyInSockHash(a, b) ==
    a.SockHash # b.SockHash /\ [a EXCEPT !.SockHash = b.SockHash] = b

\* C4: under the per-socket strategy two keys compare equal, and share one entry
\* of the table, exactly when PID and SockHash both match; keys that differ in
\* SockHash occupy distinct entries, and a counter update through one entry's
\* reference changes no other entry.
C4_PerSocket ==
    /\ [](\A a, b \in Keys :
            NetStatisticsKeyEqual(a, b) <=> (a.PID = b.PID /\ a.SockHash = b.SockHash))
    /\ [](\A a \in Keys :
            SocketOf(a) \in fetched =>
                LET entry == MapFind("NetStatisticsHashMap", mHashMap, a)
                IN  /\ entry # 0
                    /\ mHashMap[entry].key.PID = a.PID
                    /\ mHashMap[entry].key.SockHash = a.SockHash)
    /\ [](\A i, j \in 1..Len(mHashMap) :
            i # j => \/ mHashMap[i].key.PID # mHashMap[j].key.PID
                     \/ mHashMap[i].key.SockHash # mHashMap[j].key.SockHash)
    /\ [][op'.name = "UpdateCounter" =>
            /\ Len(mHashMap') = Len(mHashMap)
            /\ \A i \in 1..Len(mHashMap) : i # ref => mHashMap'[i] = mHashMap[i]]_vars

C4_Witness ==
    /\ op.name = "UpdateCounter"
    /\ \E i, j \in 1..Len(mHashMap) :
          /\ i # j
          /\ DifferOnlyInSockHash(mHashMap[i].key, mHashMap[j].key)
          /\ NonZero(mHashMap[i].val)
          /\ AllZero(mHashMap[j].val)

-----------------------------------------------------------------------------
(* Properties of role inference *)

PortRule == SrcPort > DstPort \/ DstPort < 30000

\* C8: InferRequestOrResponse always yields a message type; for direction In it
\* is Response when SrcPort > DstPort or DstPort < 30000 and Request otherwise;
\* for direction Out it is Request under the same condition and Response
\* otherwise; for direction None it is None, and only then.
C8_InferRequestOrResponse ==
    inferred.fn = "InferRequestOrResponse" =>
        /\ inferred.result \in MessageTypes
        /\ pktType = "PacketType_In" =>
              /\ PortRule => inferred.result = "MessageType_Response"
              /\ ~PortRule => inferred.result = "MessageType_Request"
        /\ pktType = "PacketType_Out" =>
              /\ PortRule => inferred.result = "MessageType_Request"
              /\ ~PortRule => inferred.result = "MessageType_Response"
        /\ inferred.result = "MessageType_None" <=> pktType = "PacketType_None"

C8_Witness ==
    /\ inferred.fn = "InferRequestOrResponse"
    /\ pktType = "PacketType_In"
    /\ SrcPort = DstPort /\ DstPort >= 30000
    /\ inferred.result = "MessageType_Request"

\* C9: InferServerOrClient yields Unknown exactly when the direction is None or
\* the message type is None; for direction In it yields Server for a Request
\* and Client for a Response; for direction Out, Client for a Request and
\* Server for a Response.
C9_InferServerOrClient ==
    inferred.fn = "InferServerOrClient" =>
        /\ inferred.result \in {"Unknown", "Client", "Server"}
        /\ inferred.result = "Unknown"
              <=> (pktType = "PacketType_None" \/ messageType = "MessageType_None")
        /\ (pktType = "PacketType_In" /\ messageType = "MessageType_Request")
              => inferred.result = "Server"
        /\ (pktType = "PacketType_In" /\ messageType = "MessageType_Response")
              => inferred.result = "Client"
        /\ (pktType = "PacketType_Out" /\ messageType = "MessageType_Request")
              => inferred.result = "Client"
        /\ (pktType = "PacketType_Out" /\ messageType = "MessageType_Response")
              => inferred.result = "Server"

C9_Witness ==
    /\ inferred.fn = "InferServerOrClient"
    /\ pktType = "PacketType_Out" /\ messageType = "MessageType_Response"
    /\ inferred.result = "Server"

\* C10 as stated: an inbound packet whose destination port is below 30000 is
\* classified Request, and an outbound one Response.
C10_Original ==
    (inferred.fn = "InferRequestOrResponse" /\ DstPort < 30000) =>
        /\ pktType = "PacketType_In" => inferred.result = "MessageType_Request"
        /\ pktType = "PacketType_Out" => inferred.result = "MessageType_Response"

\* C10 as amended: a packet whose destination port is below 30000 is classified
\* Request when its direction is Out and Response when its direction is In.
C10_WellKnownPort ==
    (inferred.fn = "InferRequestOrResponse" /\ DstPort < 30000) =>
        /\ pktType = "PacketType_Out" => inferred.result = "MessageType_Request"
        /\ pktType = "PacketType_In" => inferred.result = "MessageType_Response"

C10_Witness ==
    /\ inferred.fn = "InferRequestOrResponse"
    /\ pktType = "PacketType_Out"
    /\ SrcPort < DstPort /\ DstPort < 30000
    /\ inferred.result = "MessageType_Request"

-----------------------------------------------------------------------------
(* Properties of the event framing codec *)

Decoded == call.fn \in {"BufferToPacketEvent", "DecodeFrame"}

\* C5: BufferToPacketEvent yields event = NULL exactly when the buffer length is
\* below the header size; otherwise the event is the buffer itself and its
\* header bytes are the bytes the buffer held; the reported length is the
\* buffer length in both cases.
C5_DecodeLengthGuard ==
    Decoded =>
        /\ call.event = NULL <=> call.buffer_len < sizeofPacketEventHeader
        /\ call.buffer_len >= sizeofPacketEventHeader =>
              /\ call.event = call.buffer
              /\ Load(memory, call.event, sizeofPacketEventHeader)
                    = Load(call.before, call.buffer, sizeofPacketEventHeader)
        /\ call.len = call.buffer_len

C5_Witness ==
    /\ call.fn = "BufferToPacketEvent"
    /\ call.buffer_len = sizeofPacketEventHeader
    /\ call.event = call.buffer
    /\ call.len = sizeofPacketEventHeader

IsDataEvent ==
    /\ call.buffer_len >= sizeofPacketEventHeader
    /\ call.before[call.buffer + offsetofEventType] = PacketEventType_Data

\* C6: BufferToPacketEvent sets the payload reference only when the event type
\* is a data event and the buffer is longer than the header; on every other
\* input it leaves the buffer unchanged; it never stores outside
\* buffer[0 .. length).
C6_DecodeFrameEffect ==
    call.fn = "BufferToPacketEvent" =>
        /\ call.stores # {} =>
              (IsDataEvent /\ call.buffer_len > sizeofPacketEventHeader)
        /\ ~(IsDataEvent /\ call.buffer_len > sizeofPacketEventHeader) =>
              memory = call.before
        /\ \A a \in call.stores :
              a >= call.buffer /\ a < call.buffer + call.buffer_len

SourceIsData == call.before[EventAddr + offsetofEventType] = PacketEventType_Data

FrameBody == SubSeq(call.frame, sizeofLength + 1, Len(call.frame))

\* C7: for an event of at least header size, PacketEventToBuffer produces a
\* 4-byte length equal to the number of bytes after it, then the header, and for
\* a data event the data section's fixed fields and a copy of the payload;
\* decoding the bytes after the length yields the same header fields and a
\* payload reference whose bytes equal the payload.
C7_EncodeDecodeRoundTrip ==
    /\ (call.fn = "PacketEventToBuffer" /\ call.len >= sizeofPacketEventHeader) =>
          /\ Len(call.frame) >= sizeofLength
          /\ FromLE(SubSeq(call.frame, 1, sizeofLength)) = Len(call.frame) - sizeofLength
          /\ SubSeq(FrameBody, 1, sizeofPacketEventHeader)
                = Load(call.before, EventAddr, sizeofPacketEventHeader)
          /\ IF SourceIsData
             THEN /\ Len(FrameBody) = sizeofPacketEventHeader + sizeofPacketEventData
                                          + Len(call.payload)
                  /\ SubSeq(FrameBody, sizeofPacketEventHeader + 1,
                            sizeofPacketEventHeader + sizeofPacketEventData)
                        = Load(call.before, EventAddr + sizeofPacketEventHeader,
                               sizeofPacketEventData)
                  /\ SubSeq(FrameBody, sizeofPacketEventHeader + sizeofPacketEventData + 1,
                            Len(FrameBody)) = call.payload
             ELSE Len(FrameBody) = sizeofPacketEventHeader
    /\ call.fn = "DecodeFrame" =>
          /\ call.event = FrameAddr + sizeofLength
          /\ Load(memory, call.event, sizeofPacketEventHeader)
                = Load(call.before, EventAddr, sizeofPacketEventHeader)
          /\ SourceIsData =>
                LET data == call.event + sizeofPacketEventHeader
                    Buffer == FromLE(Load(memory, data + offsetofBuffer, sizeofPointer))
                IN  /\ Load(memory, data, offsetofBuffer)
                          = Load(call.before, EventAddr + sizeofPacketEventHeader,
                                 offsetofBuffer)
                    /\ FromLE(Load(memory, data + offsetofBufferLen, 2)) = Len(call.payload)
                    /\ Load(memory, Buffer, Len(call.payload)) = call.payload

C7_Witness ==
    /\ call.fn = "DecodeFrame"
    /\ SourceIsData
    /\ Len(call.payload) = MaxPayload
    /\ FromLE(Load(call.before, EventAddr + sizeofPacketEventHeader + offsetofBuffer,
                   sizeofPointer)) = PayloadAddr
    /\ Load(memory,
            FromLE(Load(memory, call.event + sizeofPacketEventHeader + offsetofBuffer,
                        sizeofPointer)),
            MaxPayload) = call.payload

====
